---- MODULE Spec2Model ----
(***************************************************************************)
(* Model of habitat_ranker.py: loading the patch table, building the       *)
(* weighted directed habitat graph, ranking the patches with weighted      *)
(* PageRank and printing the ranking.                                      *)
(*                                                                         *)
(* Numbers.  Python floats are modelled as decimal fixed-point values with *)
(* Scale units per 1.0 (truncating arithmetic), extended with the IEEE     *)
(* special values NaN, +inf and -inf.  Coordinates and distances use the   *)
(* coarser CoordScale (units per 1.0 of map distance) so that squared      *)
(* distances stay inside TLC's 32-bit integers.                            *)
(***************************************************************************)
EXTENDS Integers, Sequences, FiniteSets, TLC

\* ------------------------------------------------------------------------
\* Fixed-point representation of floats
\* ------------------------------------------------------------------------
Half == 10^4
Scale == Half * Half
CoordScale == 10^2

Fin(v) == [k |-> "fin", v |-> v]
NaN == [k |-> "nan", v |-> 0]
PosInf == [k |-> "inf", v |-> 1]
NegInf == [k |-> "inf", v |-> -1]

IsFin(a) == a.k = "fin"
IsNaN(a) == a.k = "nan"
IsInf(a) == a.k = "inf"
Sgn(n) == IF n > 0 THEN 1 ELSE IF n < 0 THEN -1 ELSE 0
Abs(n) == IF n < 0 THEN -n ELSE n

\* floor(a * b / Scale) for a, b >= 0, without leaving 32 bits
MulFix(a, b) ==
    LET a1 == a \div Half
        a0 == a % Half
        b1 == b \div Half
        b0 == b % Half
    IN  a1 * b1 + (a1 * b0 + a0 * b1 + (a0 * b0) \div Half) \div Half

\* floor(a * Scale / b) for 0 <= a, 0 < b: long division, Scale = 10^8 fed in
\* as eight factors of 5 and four factors of 4
RECURSIVE DivSteps(_, _, _, _)
DivSteps(q, r, b, n) ==
    IF n = 0 THEN q
    ELSE LET m == IF n > 4 THEN 5 ELSE 4
         IN  DivSteps(q * m + (r * m) \div b, (r * m) % b, b, n - 1)

DivFix(a, b) == DivSteps(a \div b, a % b, b, 12)

\* integer square root: the largest r with r * r <= n
RECURSIVE ISqrtIn(_, _, _)
ISqrtIn(n, lo, hi) ==
    IF lo >= hi THEN lo
    ELSE LET mid == (lo + hi + 1) \div 2
         IN  IF mid * mid <= n THEN ISqrtIn(n, mid, hi) ELSE ISqrtIn(n, lo, mid - 1)

ISqrt(n) == ISqrtIn(n, 0, 46340)

\* (a * b) % Scale for a, b >= 0: the digits MulFix drops
MulRem(a, b) ==
    LET a1 == a \div Half
        a0 == a % Half
        b1 == b \div Half
        b0 == b % Half
    IN  (((a1 * b0 + a0 * b1) % Half) * Half + a0 * b0) % Scale

\* fixed-point square root: the largest r with r * r <= v * Scale
RECURSIVE SqrtFixIn(_, _, _)
SqrtFixIn(v, lo, hi) ==
    IF lo >= hi THEN lo
    ELSE LET mid == lo + (hi - lo + 1) \div 2
             sq == MulFix(mid, mid)
         IN  IF sq < v \/ (sq = v /\ MulRem(mid, mid) = 0)
             THEN SqrtFixIn(v, mid, hi) ELSE SqrtFixIn(v, lo, mid - 1)

SqrtFix(v) == SqrtFixIn(v, 0, IF v < Scale THEN Scale ELSE v)

\* exp(-t) for fixed-point t >= 0: Taylor series below 1.0, squaring above
RECURSIVE ExpTaylor(_, _, _, _)
ExpTaylor(t, term, n, acc) ==
    IF term = 0 THEN acc
    ELSE LET next == MulFix(term, t) \div n
         IN  ExpTaylor(t, next, n + 1, IF n % 2 = 1 THEN acc - next ELSE acc + next)

RECURSIVE ExpNeg(_)
ExpNeg(t) ==
    IF t > Scale THEN LET h == ExpNeg(t \div 2) IN MulFix(h, h)
    ELSE ExpTaylor(t, Scale, 1, Scale)

\* ------------------------------------------------------------------------
\* IEEE arithmetic on the extended values
\* ------------------------------------------------------------------------
FNeg(a) == IF IsNaN(a) THEN NaN ELSE [k |-> a.k, v |-> -a.v]

FAdd(a, b) ==
    IF IsNaN(a) \/ IsNaN(b) THEN NaN
    ELSE IF IsFin(a) /\ IsFin(b) THEN Fin(a.v + b.v)
    ELSE IF IsInf(a) /\ IsInf(b) THEN (IF a.v = b.v THEN a ELSE NaN)
    ELSE IF IsInf(a) THEN a ELSE b

FSub(a, b) == FAdd(a, FNeg(b))

FAbs(a) == IF IsNaN(a) THEN NaN ELSE [k |-> a.k, v |-> Abs(a.v)]

\* a * b of two fixed-point values (0 * inf is NaN)
FMul(a, b) ==
    IF IsNaN(a) \/ IsNaN(b) THEN NaN
    ELSE IF IsFin(a) /\ IsFin(b) THEN Fin(Sgn(a.v) * Sgn(b.v) * MulFix(Abs(a.v), Abs(b.v)))
    ELSE IF a.v = 0 \/ b.v = 0 THEN NaN
    ELSE IF Sgn(a.v) = Sgn(b.v) THEN PosInf ELSE NegInf

\* a / b of two fixed-point values, a >= 0 and b > 0 or special (inf / inf is NaN)
FDiv(a, b) ==
    IF IsNaN(a) \/ IsNaN(b) THEN NaN
    ELSE IF IsFin(a) /\ IsFin(b) THEN Fin(DivFix(a.v, b.v))
    ELSE IF IsInf(a) /\ IsInf(b) THEN NaN
    ELSE IF IsInf(a) THEN a
    ELSE Fin(0)

\* np.sqrt of a fixed-point value: NaN below zero
FSqrt(a) ==
    IF IsNaN(a) THEN NaN
    ELSE IF IsFin(a) THEN (IF a.v < 0 THEN NaN ELSE Fin(SqrtFix(a.v)))
    ELSE IF a.v > 0 THEN PosInf ELSE NaN

\* a < b, a > b: every comparison with NaN is False
FLt(a, b) ==
    IF IsNaN(a) \/ IsNaN(b) THEN FALSE
    ELSE IF IsFin(a) /\ IsFin(b) THEN a.v < b.v
    ELSE IF IsInf(a) /\ IsInf(b) THEN a.v < b.v
    ELSE IF IsInf(a) THEN a.v < 0
    ELSE b.v > 0

FGt(a, b) == FLt(b, a)

\* ------------------------------------------------------------------------
\* Configuration and parameters
\* ------------------------------------------------------------------------
DISPERSAL_DISTANCE == 15
DAMPING_FACTOR == 85 * (Scale \div 100)
WEIGHT_THRESHOLD == Fin(Scale \div 100)

\* ------------------------------------------------------------------------
\* calculate_edge_weight
\* ------------------------------------------------------------------------
\* a ** 2 on a coordinate difference
Square(a) == IF IsNaN(a) THEN NaN ELSE IF IsFin(a) THEN Fin(a.v * a.v) ELSE PosInf

\* np.sqrt((x1 - x2)**2 + (y1 - y2)**2), in coordinate units
Distance(patch1, patch2) ==
    LET sum == FAdd(Square(FSub(patch1.x, patch2.x)), Square(FSub(patch1.y, patch2.y)))
    IN  IF IsFin(sum) THEN Fin(ISqrt(sum.v)) ELSE sum

\* np.exp(-distance / dispersal_dist): distance is >= 0, +inf or NaN; the
\* quotient is converted from coordinate units to fixed point, and exp(-t)
\* is below one fixed-point unit from t = 20 on
DistanceFactor(distance, dispersal_dist) ==
    IF IsNaN(distance) THEN NaN
    ELSE IF IsInf(distance) THEN Fin(0)
    ELSE IF distance.v >= 20 * dispersal_dist * CoordScale THEN Fin(0)
    ELSE LET per == Scale \div CoordScale
             t == (distance.v \div dispersal_dist) * per
                  + ((distance.v % dispersal_dist) * per) \div dispersal_dist
         IN  Fin(ExpNeg(t))

\* np.sqrt(quality1 * quality2)
QualityFactor(patch1, patch2) == FSqrt(FMul(patch1.quality, patch2.quality))

calculate_edge_weight(patch1, patch2, dispersal_dist) ==
    FMul(DistanceFactor(Distance(patch1, patch2), dispersal_dist),
         QualityFactor(patch1, patch2))

\* ------------------------------------------------------------------------
\* Weighted PageRank: nx.pagerank is library code, the solver below is the
\* damped power iteration of the specification (uniform start, uniform
\* teleportation, dangling mass redistributed uniformly at every update,
\* convergence test sum |new - old| < n * tolerance, failure after
\* maxIterations updates), with the library's default tolerance 1e-6 and
\* iteration cap 100, which main() does not override
\* ------------------------------------------------------------------------
tolerance == Scale \div 10^6
maxIterations == 100

RECURSIVE FSumSeq(_)
FSumSeq(seq) == IF seq = <<>> THEN Fin(0) ELSE FAdd(Head(seq), FSumSeq(Tail(seq)))

\* a / n for a whole number n
FDivInt(a, n) == IF IsFin(a) THEN Fin(a.v \div n) ELSE a

HasEdge(w, u, v) == <<u, v>> \in DOMAIN w

\* total outgoing weight of node u
OutWeight(nodes, w, u) ==
    FSumSeq([i \in 1..Len(nodes) |->
                IF HasEdge(w, u, nodes[i]) THEN w[<<u, nodes[i]>>] ELSE Fin(0)])

\* a node with no outgoing edges
IsDangling(nodes, w, u) == \A i \in 1..Len(nodes) : ~HasEdge(w, u, nodes[i])

\* weight / (sum of the source's outgoing weights), per edge
TransitionProb(nodes, w) ==
    [e \in DOMAIN w |-> FDiv(w[e], OutWeight(nodes, w, e[1]))]

\* variant: dangling mass is dropped instead of redistributed
DanglingMass_dropped(nodes, w, score) == Fin(0)

\* probability mass sitting on dangling nodes, recomputed from the current scores
DanglingMass(nodes, w, score) ==
    FSumSeq([i \in 1..Len(nodes) |->
                IF IsDangling(nodes, w, nodes[i]) THEN score[i] ELSE Fin(0)])

\* one full update of the score vector (scores indexed like nodes)
NewScore(nodes, w, prob, score, d) ==
    LET n == Len(nodes)
        dangle == FDivInt(DanglingMass(nodes, w, score), n)
        inflow(j) == FSumSeq([i \in 1..n |->
                         IF HasEdge(w, nodes[i], nodes[j])
                         THEN FMul(score[i], prob[<<nodes[i], nodes[j]>>])
                         ELSE Fin(0)])
    IN  [j \in 1..n |->
            FAdd(Fin((Scale - d) \div n), FMul(Fin(d), FAdd(dangle, inflow(j))))]

\* sum over nodes of |newScore - score|
Residual(new, old) ==
    FSumSeq([i \in 1..Len(new) |-> FAbs(FSub(new[i], old[i]))])

Converged(new, old) == FLt(Residual(new, old), Fin(Len(new) * tolerance))

\* the uniform start vector: every node gets 1/n
InitialScore(nodes) == [i \in 1..Len(nodes) |-> Fin(Scale \div Len(nodes))]

\* ------------------------------------------------------------------------
\* Sorting and printing of the ranking
\* ------------------------------------------------------------------------
\* variant: an item goes in front of the items with an equal score
RECURSIVE InsertDesc_unstable(_, _)
InsertDesc_unstable(sorted, item) ==
    IF sorted = <<>> THEN <<item>>
    ELSE IF ~FLt(item.score, Head(sorted).score) THEN <<item>> \o sorted
    ELSE <<Head(sorted)>> \o InsertDesc_unstable(Tail(sorted), item)

\* sorted(items, key=score, reverse=True): stable, an item goes behind every
\* item whose score is not smaller than its own
RECURSIVE InsertDesc(_, _)
InsertDesc(sorted, item) ==
    IF sorted = <<>> THEN <<item>>
    ELSE IF FLt(Head(sorted).score, item.score) THEN <<item>> \o sorted
    ELSE <<Head(sorted)>> \o InsertDesc(Tail(sorted), item)

RECURSIVE SortDesc(_, _)
SortDesc(items, acc) ==
    IF items = <<>> THEN acc ELSE SortDesc(Tail(items), InsertDesc(acc, Head(items)))

sorted_by_score(items) == SortDesc(items, <<>>)

\* f"{score:.4f}": the score rounded to four decimals, in units of 0.0001
Format4(score) == (score.v + Scale \div (2 * Half)) \div (Scale \div Half)

\* ------------------------------------------------------------------------
\* Inputs: the data file and its rows
\* ------------------------------------------------------------------------
DATA_FILE == "data/habitat_patches.csv"
MaxPatches == 4

Coord(u) == Fin(u * CoordScale)
Row(id, x, y, quality) == [id |-> id, x |-> x, y |-> y, quality |-> quality]

\* rows a habitat_patches.csv may hold: id, x, y, quality
PatchPool ==
    { Row(1, Coord(0), Coord(0), Fin(Scale)),
      Row(2, Coord(0), Coord(0), Fin(Scale)),
      Row(2, Coord(40), Coord(0), Fin(Scale)),
      Row(3, Coord(80), Coord(0), Fin(Scale)),
      Row(3, Coord(0), Coord(0), Fin(Scale \div Half)),
      Row(1, Coord(6), Coord(8), Fin(-Scale)),
      Row(2, NaN, Coord(0), Fin(Scale)),
      Row(3, Coord(0), Coord(0), PosInf) }

\* the tables of at most MaxPatches rows, no row written twice (two rows may
\* still share an identifier)
Tables ==
    UNION { { t \in [1..n -> PatchPool] : \A i, j \in 1..n : i # j => t[i] # t[j] }
            : n \in 0..MaxPatches }

\* ------------------------------------------------------------------------
\* State of one run of main()
\* ------------------------------------------------------------------------
VARIABLES
    file,             \* "present" or "missing": whether DATA_FILE can be opened
    csv,              \* the rows of the file, in file order
    pc,               \* position in main()
    patches_df,       \* the loaded frame (rows in order), <<>> before loading
    G_nodes,          \* node identifiers of G in insertion order
    G_attr,           \* node identifier -> [quality, pos]
    G_edges,          \* <<source, target>> -> weight
    si, ti,           \* row positions of the source and target loops
    score,            \* the solver's current score vector, indexed like G_nodes
    iters,            \* full updates the solver has made
    err,              \* the residual of the solver's last update
    pagerank_scores,  \* <<[id, score]>> in node order, as nx.pagerank returned it
    sorted_ranks,     \* the sorted items
    stdout,           \* the lines printed so far
    exc,              \* the exception that ended the run, "none" if none
    solver_calls,     \* number of calls of nx.pagerank
    plotted           \* whether the visualization step ran

vars == <<file, csv, pc, patches_df, G_nodes, G_attr, G_edges, si, ti, score, iters, err,
          pagerank_scores, sorted_ranks, stdout, exc, solver_calls, plotted>>

Init ==
    /\ file \in {"present", "missing"}
    /\ csv \in (IF file = "present" THEN Tables ELSE {<<>>})
    /\ pc = "load"
    /\ patches_df = <<>>
    /\ G_nodes = <<>>
    /\ G_attr = <<>>
    /\ G_edges = <<>>
    /\ si = 1
    /\ ti = 1
    /\ score = <<>>
    /\ iters = 0
    /\ err = Fin(0)
    /\ pagerank_scores = <<>>
    /\ sorted_ranks = <<>>
    /\ stdout = <<>>
    /\ exc = "none"
    /\ solver_calls = 0
    /\ plotted = FALSE

\* variant: a handler around the solver call swallows what it raises
Uncaught_swallowed(exception) == FALSE

\* whether an exception raised inside main() leaves it: the only handler is
\* the except FileNotFoundError around the loading
Uncaught(exception) == exception # "FileNotFoundError"

Line(t, a, b) == [t |-> t, a |-> a, b |-> b]

\* variant: the handler prints and falls through to the network construction
after_not_found_fallthrough == "nodes"

\* where the except FileNotFoundError handler leaves main(): it returns
after_not_found == "returned"

\* DATA LOADING: pd.read_csv inside try, FileNotFoundError prints and returns;
\* after a successful load the construction starts with G = nx.DiGraph()
LoadData ==
    /\ pc = "load"
    /\ IF file = "missing"
       THEN /\ stdout' = stdout \o <<Line("step1", 0, 0), Line("error_not_found", DATA_FILE, 0)>>
            /\ pc' = after_not_found
            /\ UNCHANGED patches_df
       ELSE /\ patches_df' = csv
            /\ stdout' = stdout \o <<Line("step1", 0, 0), Line("loaded", Len(csv), 0),
                                     Line("step2", 0, 0)>>
            /\ pc' = "nodes"
    /\ UNCHANGED <<score, iters, err, file, csv, G_nodes, G_attr, G_edges, si, ti, pagerank_scores,
                   sorted_ranks, exc, solver_calls, plotted>>

InSeq(seq, x) == \E i \in 1..Len(seq) : seq[i] = x

\* G.add_node(patch_id, quality=..., pos=...): a new identifier is appended,
\* a known one has its attributes replaced
add_node(nodes, id) == IF InSeq(nodes, id) THEN nodes ELSE Append(nodes, id)

\* variant: the node loop is missing, nodes come from G.add_edge alone
add_row_node_skipped(nodes, data) == nodes

\* the node loop's body: the row's identifier becomes a node
add_row_node(nodes, data) == add_node(nodes, data.id)

AddNode ==
    /\ pc = "nodes"
    /\ si <= Len(patches_df)
    /\ LET data == patches_df[si]
       IN  /\ G_nodes' = add_row_node(G_nodes, data)
           /\ G_attr' = (data.id :> [quality |-> data.quality, pos |-> <<data.x, data.y>>]) @@ G_attr
    /\ si' = si + 1
    /\ UNCHANGED <<score, iters, err, file, csv, pc, patches_df, G_edges, ti, pagerank_scores,
                   sorted_ranks, stdout, exc, solver_calls, plotted>>

NodesDone ==
    /\ pc = "nodes"
    /\ si > Len(patches_df)
    /\ pc' = "edges"
    /\ si' = 1
    /\ ti' = 1
    /\ UNCHANGED <<score, iters, err, file, csv, patches_df, G_nodes, G_attr, G_edges, pagerank_scores,
                   sorted_ranks, stdout, exc, solver_calls, plotted>>

\* variant: the identifiers are not compared
passes_threshold_any(source, target) ==
    FGt(calculate_edge_weight(source, target, DISPERSAL_DISTANCE), WEIGHT_THRESHOLD)

\* the test both loops make before G.add_edge: different identifiers and
\* weight > WEIGHT_THRESHOLD
passes_threshold(source, target) ==
    /\ source.id # target.id
    /\ FGt(calculate_edge_weight(source, target, DISPERSAL_DISTANCE), WEIGHT_THRESHOLD)

\* G.add_edge(source_id, target_id, weight=weight): the edge is created, or
\* its weight replaced
add_pair(edges, source, target) ==
    IF passes_threshold(source, target)
    THEN (<<source.id, target.id>> :>
             calculate_edge_weight(source, target, DISPERSAL_DISTANCE)) @@ edges
    ELSE edges

\* G.add_edge also creates an endpoint that is not yet a node
nodes_after_pair(nodes, source, target) ==
    IF passes_threshold(source, target)
    THEN add_node(add_node(nodes, source.id), target.id)
    ELSE nodes

\* one pass of the inner loop body for the pair (si, ti)
AddEdge ==
    /\ pc = "edges"
    /\ si <= Len(patches_df)
    /\ G_edges' = add_pair(G_edges, patches_df[si], patches_df[ti])
    /\ G_nodes' = nodes_after_pair(G_nodes, patches_df[si], patches_df[ti])
    /\ IF ti < Len(patches_df)
       THEN ti' = ti + 1 /\ si' = si
       ELSE ti' = 1 /\ si' = si + 1
    /\ UNCHANGED <<score, iters, err, file, csv, pc, patches_df, G_attr, pagerank_scores,
                   sorted_ranks, stdout, exc, solver_calls, plotted>>

EdgesDone ==
    /\ pc = "edges"
    /\ si > Len(patches_df)
    /\ stdout' = Append(stdout, Line("built", Len(G_nodes), Cardinality(DOMAIN G_edges)))
    /\ pc' = "rank"
    /\ UNCHANGED <<score, iters, err, file, csv, patches_df, G_nodes, G_attr, G_edges, si, ti,
                   pagerank_scores, sorted_ranks, exc, solver_calls, plotted>>

\* nx.pagerank(G, alpha=DAMPING_FACTOR, weight='weight') is entered: an empty
\* graph yields an empty distribution at once, otherwise the iteration starts
\* from the uniform vector
CallPagerank ==
    /\ pc = "rank"
    /\ solver_calls' = solver_calls + 1
    /\ iters' = 0
    /\ err' = Fin(0)
    /\ IF Len(G_nodes) = 0
       THEN /\ pagerank_scores' = <<>>
            /\ pc' = "sort"
            /\ UNCHANGED score
       ELSE /\ score' = InitialScore(G_nodes)
            /\ pc' = "iterate"
            /\ UNCHANGED pagerank_scores
    /\ stdout' = Append(stdout, Line("step3", 0, 0))
    /\ UNCHANGED <<file, csv, patches_df, G_nodes, G_attr, G_edges, si, ti,
                   sorted_ranks, exc, plotted>>

\* one full update and the convergence test after it; the solver returns the
\* new vector when the test is met and raises after maxIterations updates
\* without meeting it; main() does not catch what the solver raises
Iterate ==
    /\ pc = "iterate"
    /\ LET new == NewScore(G_nodes, G_edges, TransitionProb(G_nodes, G_edges), score,
                           DAMPING_FACTOR)
       IN  /\ score' = new
           /\ iters' = iters + 1
           /\ err' = Residual(new, score)
           /\ IF Converged(new, score)
              THEN /\ pagerank_scores' =
                          [i \in 1..Len(G_nodes) |-> [id |-> G_nodes[i], score |-> new[i]]]
                   /\ pc' = "sort"
                   /\ UNCHANGED exc
              ELSE IF iters + 1 < maxIterations
              THEN UNCHANGED <<pc, exc, pagerank_scores>>
              ELSE IF Uncaught("PowerIterationFailedConvergence")
              THEN /\ exc' = "PowerIterationFailedConvergence"
                   /\ pc' = "raised"
                   /\ UNCHANGED pagerank_scores
              ELSE /\ pagerank_scores' =
                          [i \in 1..Len(G_nodes) |-> [id |-> G_nodes[i], score |-> new[i]]]
                   /\ pc' = "sort"
                   /\ UNCHANGED exc
    /\ UNCHANGED <<file, csv, patches_df, G_nodes, G_attr, G_edges, si, ti,
                   sorted_ranks, stdout, solver_calls, plotted>>

\* sorted(pagerank_scores.items(), key=lambda item: item[1], reverse=True)
SortRanks ==
    /\ pc = "sort"
    /\ sorted_ranks' = sorted_by_score(pagerank_scores)
    /\ pc' = "display"
    /\ UNCHANGED <<file, csv, patches_df, G_nodes, G_attr, G_edges, si, ti, score, iters,
                   err, pagerank_scores, stdout, exc, solver_calls, plotted>>

\* RESULTS DISPLAY: the header and one line per sorted item
Display ==
    /\ pc = "display"
    /\ stdout' = stdout \o <<Line("ranking_header", 0, 0)>>
                        \o [i \in 1..Len(sorted_ranks) |->
                               Line("rank", sorted_ranks[i].id, Format4(sorted_ranks[i].score))]
    /\ pc' = "visualize"
    /\ UNCHANGED <<score, iters, err, file, csv, patches_df, G_nodes, G_attr, G_edges, si, ti,
                   pagerank_scores, sorted_ranks, exc, solver_calls, plotted>>

\* VISUALIZATION: reads G and pagerank_scores, draws, changes neither
Visualize ==
    /\ pc = "visualize"
    /\ stdout' = Append(stdout, Line("step4", 0, 0))
    /\ plotted' = TRUE
    /\ pc' = "done"
    /\ UNCHANGED <<score, iters, err, file, csv, patches_df, G_nodes, G_attr, G_edges, si, ti,
                   pagerank_scores, sorted_ranks, exc, solver_calls>>

Next ==
    \/ LoadData
    \/ AddNode
    \/ NodesDone
    \/ AddEdge
    \/ EdgesDone
    \/ CallPagerank
    \/ Iterate
    \/ SortRanks
    \/ Display
    \/ Visualize

Spec == Init /\ [][Next]_vars

\* ------------------------------------------------------------------------
\* Properties
\* ------------------------------------------------------------------------
\* the build loop has finished
Built == pc \in {"rank", "iterate", "sort", "display", "visualize", "done", "raised"}
\* the ranking has been printed
Printed == pc \in {"visualize", "done"}
\* the solver has returned a distribution
Returned == pc \in {"sort", "display", "visualize", "done"}

RankLine(l) == l.t = "rank"
RankLines == SelectSeq(stdout, RankLine)
IdsOf(rows) == {rows[i].id : i \in DOMAIN rows}
NodeSet == {G_nodes[i] : i \in DOMAIN G_nodes}
Weight(a, b) == calculate_edge_weight(a, b, DISPERSAL_DISTANCE)
PosOf(seq, x) == CHOOSE i \in 1..Len(seq) : seq[i] = x
HasDuplicateIds(rows) == \E i, j \in DOMAIN rows : i # j /\ rows[i].id = rows[j].id
Invalid(row) ==
    \/ ~IsFin(row.x) \/ ~IsFin(row.y) \/ ~IsFin(row.quality)
    \/ row.quality.v < 0
RECURSIVE SumV(_)
SumV(seq) == IF seq = <<>> THEN 0 ELSE Head(seq).v + SumV(Tail(seq))
AllFin(seq) == \A i \in DOMAIN seq : IsFin(seq[i])

\* C1: once the graph is built, for every ordered pair of rows with different
\* identifiers the edge source->target exists iff their weight is strictly
\* above WEIGHT_THRESHOLD, and a present edge stores exactly that weight.
C1_ThresholdCorrectness ==
    Built =>
        \A i, j \in DOMAIN patches_df :
            patches_df[i].id # patches_df[j].id =>
                LET u == patches_df[i]
                    v == patches_df[j]
                IN  /\ HasEdge(G_edges, u.id, v.id) <=> FGt(Weight(u, v), WEIGHT_THRESHOLD)
                    /\ HasEdge(G_edges, u.id, v.id) => G_edges[<<u.id, v.id>>] = Weight(u, v)

\* C2: in every state, during and after construction, no edge of the graph
\* has its source identifier equal to its target identifier.
C2_NoSelfLoops == \A e \in DOMAIN G_edges : e[1] # e[2]

\* two patches with identical coordinates and quality 1 are joined by an
\* edge of the maximal weight 1.0 in the built graph
C2_Witness ==
    /\ Built
    /\ \E i, j \in DOMAIN patches_df :
          /\ patches_df[i].id # patches_df[j].id
          /\ patches_df[i].x = patches_df[j].x /\ patches_df[i].y = patches_df[j].y
          /\ patches_df[i].quality = Fin(Scale) /\ patches_df[j].quality = Fin(Scale)
          /\ HasEdge(G_edges, patches_df[i].id, patches_df[j].id)
          /\ G_edges[<<patches_df[i].id, patches_df[j].id>>] = Fin(Scale)

\* C3: once the graph is built its node set is the set of input identifiers,
\* and the printed ranking holds exactly one line for every input identifier.
C3_EveryPatchIsNode ==
    /\ Built => /\ NodeSet = IdsOf(patches_df)
                /\ Len(G_nodes) = Cardinality(NodeSet)
    /\ Printed => /\ \A id \in IdsOf(patches_df) :
                        Cardinality({k \in DOMAIN RankLines : RankLines[k].a = id}) = 1
                  /\ Len(RankLines) = Cardinality(IdsOf(patches_df))

\* a patch without any edge, in a graph that has edges, is printed
C3_Witness ==
    /\ pc = "done"
    /\ DOMAIN G_edges # {}
    /\ \E i \in DOMAIN patches_df :
          /\ \A j \in DOMAIN patches_df :
                patches_df[j].id # patches_df[i].id =>
                    ~FGt(Weight(patches_df[i], patches_df[j]), WEIGHT_THRESHOLD)
          /\ \A e \in DOMAIN G_edges : e[1] # patches_df[i].id /\ e[2] # patches_df[i].id
          /\ \E k \in DOMAIN RankLines : RankLines[k].a = patches_df[i].id

\* C4: when two rows of the file share an identifier the run never finishes
\* building a graph (in particular none with fewer nodes than rows) and
\* never prints a ranking line.
C4_DuplicatesRejected ==
    (file = "present" /\ HasDuplicateIds(csv)) =>
        /\ ~Built
        /\ RankLines = <<>>

\* C5: a run that made maxIterations updates without meeting the convergence
\* test ends raised with the convergence failure, returns and prints no
\* ranking; a distribution is returned or printed only after the test was met.
C5_ConvergenceFailureNotSwallowed ==
    /\ (iters >= maxIterations /\ ~FLt(err, Fin(Len(G_nodes) * tolerance))) =>
           /\ pc = "raised"
           /\ exc = "PowerIterationFailedConvergence"
    /\ pc = "raised" =>
           /\ pagerank_scores = <<>> /\ sorted_ranks = <<>>
           /\ RankLines = <<>> /\ ~plotted
    /\ (pagerank_scores # <<>> \/ RankLines # <<>>) =>
           FLt(err, Fin(Len(G_nodes) * tolerance))

\* the solver gave up after maxIterations updates
C5_Witness ==
    /\ pc = "raised"
    /\ iters = maxIterations
    /\ ~FLt(err, Fin(Len(G_nodes) * tolerance))

\* C6: when the data file is missing the run prints the diagnostic naming
\* DATA_FILE and returns: no frame, no node, no edge, no solver call, no
\* ranking line, no visualization.
C6_SourceUnavailableHalts ==
    file = "missing" =>
        /\ pc \in {"load", "returned"}
        /\ patches_df = <<>> /\ G_nodes = <<>> /\ G_edges = <<>>
        /\ solver_calls = 0 /\ ~plotted
        /\ \A k \in DOMAIN stdout : stdout[k].t \in {"step1", "error_not_found"}
        /\ pc = "returned" =>
               \E k \in DOMAIN stdout :
                   stdout[k].t = "error_not_found" /\ stdout[k].a = DATA_FILE

\* the run has returned from the handler
C6_Witness == file = "missing" /\ pc = "returned" /\ Len(stdout) = 2

\* C7: when a row has a negative quality or a non-finite coordinate or
\* quality the run never finishes building a graph and never prints a
\* ranking line.
C7_InvalidValuesRejected ==
    (file = "present" /\ \E i \in DOMAIN csv : Invalid(csv[i])) =>
        /\ ~Built
        /\ RankLines = <<>>

\* C8 as stated: the printed scores never increase down the list, and of two
\* entries with equal scores the one with the smaller identifier comes first.
C8_RankingOrderById ==
    Printed =>
        \A k, l \in DOMAIN sorted_ranks :
            k < l =>
                /\ RankLines[k].b >= RankLines[l].b
                /\ sorted_ranks[k].score = sorted_ranks[l].score =>
                       sorted_ranks[k].id < sorted_ranks[l].id

\* C8 amended: the printed list is the sorted list, scores never increase
\* down the list, and of two entries with equal scores the one whose
\* identifier became a node first (first appearance in the file) comes first.
C8_RankingOrderStable ==
    Printed =>
        /\ Len(RankLines) = Len(sorted_ranks)
        /\ \A k \in DOMAIN sorted_ranks :
              /\ RankLines[k].a = sorted_ranks[k].id
              /\ RankLines[k].b = Format4(sorted_ranks[k].score)
        /\ \A k, l \in DOMAIN sorted_ranks :
              k < l =>
                  /\ ~FLt(sorted_ranks[k].score, sorted_ranks[l].score)
                  /\ RankLines[k].b >= RankLines[l].b
                  /\ sorted_ranks[k].score = sorted_ranks[l].score =>
                         PosOf(G_nodes, sorted_ranks[k].id) < PosOf(G_nodes, sorted_ranks[l].id)

\* a printed ranking with a tie whose first entry has the larger identifier,
\* and with a strict descent
C8_Witness ==
    /\ pc = "done"
    /\ \E k, l \in DOMAIN sorted_ranks :
          /\ k < l
          /\ sorted_ranks[k].score = sorted_ranks[l].score
          /\ sorted_ranks[k].id > sorted_ranks[l].id
    /\ \E k, l \in DOMAIN sorted_ranks :
          k < l /\ FLt(sorted_ranks[l].score, sorted_ranks[k].score)

\* C9: every score of a returned distribution is finite and non-negative and
\* the scores sum to 1 within n * tolerance; the same sum holds after every
\* update of the iteration while the scores are finite.
C9_ScoreNormalization ==
    /\ (Returned /\ Len(G_nodes) >= 1) =>
           /\ Len(pagerank_scores) = Len(G_nodes)
           /\ \A i \in DOMAIN pagerank_scores :
                 IsFin(pagerank_scores[i].score) /\ pagerank_scores[i].score.v >= 0
           /\ Abs(SumV(score) - Scale) <= Len(G_nodes) * tolerance
           /\ \A i \in DOMAIN pagerank_scores : pagerank_scores[i].score = score[i]
    /\ (pc = "iterate" /\ AllFin(score)) =>
           Abs(SumV(score) - Scale) <= Len(G_nodes) * tolerance

\* a returned distribution of a graph with a dangling node and a node with
\* outgoing edges, reached after more than one update
C9_Witness ==
    /\ pc = "done"
    /\ iters > 1
    /\ \E i \in DOMAIN G_nodes : IsDangling(G_nodes, G_edges, G_nodes[i])
    /\ \E i \in DOMAIN G_nodes : ~IsDangling(G_nodes, G_edges, G_nodes[i])

\* C10: the weight of a pair of rows is the same in both directions, and in
\* the built graph the edge A->B exists iff B->A exists, with the same weight.
C10_EdgeSymmetry ==
    Built =>
        /\ \A i, j \in DOMAIN patches_df :
              Weight(patches_df[i], patches_df[j]) = Weight(patches_df[j], patches_df[i])
        /\ \A u, v \in NodeSet :
              /\ HasEdge(G_edges, u, v) <=> HasEdge(G_edges, v, u)
              /\ HasEdge(G_edges, u, v) => G_edges[<<u, v>>] = G_edges[<<v, u>>]

====
